---- MODULE Spec2Model ----
(***************************************************************************)
(* paragone: key-based translation lookup (class I18n), cookie/header      *)
(* locale detection (getLanguage, setLanguage) and the process-wide        *)
(* configuration (configure), modelled from src/src/lib/i18n/i18n.ts.      *)
(*                                                                         *)
(* A JavaScript string is a sequence of one-character strings, so that     *)
(* split, trim, toLowerCase, parseFloat and RegExp replacement are         *)
(* computed character by character as the library computes them.           *)
(***************************************************************************)
EXTENDS Integers, Sequences, FiniteSets, TLC

VARIABLES
    config,          \* the module-level `config` record
    cookies,         \* the request's cookie store: cookie name -> value
    translations,    \* I18n.translations: locale code -> translation tree
    locale,          \* I18n.locale
    key,             \* argument `key` of t() / has()
    vars,            \* argument `vars` of t()
    acceptLanguage,  \* argument `acceptLanguage` of getLanguage()
    op,              \* the operation that ran last
    returned,        \* its return value, when it returns a string
    found,           \* its return value, when it returns a boolean
    threw,           \* TRUE when it raised instead of returning
    lastOptions,     \* argument `options` of the latest configure()
    built,           \* the latest `new I18n`: its argument `locale` and the
                     \* `config` it read
    lastSet          \* the latest setLanguage(): its argument `language` and
                     \* the `config` it read

allVars == <<config, cookies, translations, locale, key, vars,
             acceptLanguage, op, returned, found, threw,
             lastOptions, built, lastSet>>

(***************************************************************************)
(* Bounds of the model.                                                    *)
(***************************************************************************)
MaxKeyLen == 3       \* longest dotted key, in characters
MaxVars == 2         \* most entries of a variable map
MaxEntries == 2      \* most comma-separated entries of a generated header
MaxSupported == 2    \* most languages of a configured supported set

(***************************************************************************)
(* Strings.                                                                *)
(***************************************************************************)
\* s.startsWith(sep, i-1): sep occurs in s at (1-based) position i
OccursAt(s, sep, i) ==
    /\ i >= 1
    /\ i + Len(sep) - 1 <= Len(s)
    /\ \A j \in 1..Len(sep) : s[i + j - 1] = sep[j]

\* s.indexOf(sep) as a 1-based position, 0 when sep does not occur
IndexOf(s, sep) ==
    LET hits == {i \in 1..Len(s) : OccursAt(s, sep, i)}
    IN  IF hits = {} THEN 0 ELSE CHOOSE i \in hits : \A j \in hits : i <= j

\* String.prototype.split with a non-empty separator and no limit
RECURSIVE Split(_, _)
Split(s, sep) ==
    LET i == IndexOf(s, sep)
    IN  IF i = 0
        THEN <<s>>
        ELSE <<SubSeq(s, 1, i - 1)>> \o Split(SubSeq(s, i + Len(sep), Len(s)), sep)

WhiteSpace == {" ", "\t", "\n", "\r"}

\* String.prototype.trim
RECURSIVE Trim(_)
Trim(s) ==
    IF s = <<>> THEN s
    ELSE IF s[1] \in WhiteSpace THEN Trim(Tail(s))
    ELSE IF s[Len(s)] \in WhiteSpace THEN Trim(SubSeq(s, 1, Len(s) - 1))
    ELSE s

UpperCase == <<"A","B","C","D","E","F","G","H","I","J","K","L","M",
               "N","O","P","Q","R","S","T","U","V","W","X","Y","Z">>
LowerCase == <<"a","b","c","d","e","f","g","h","i","j","k","l","m",
               "n","o","p","q","r","s","t","u","v","w","x","y","z">>

\* String.prototype.toLowerCase
ToLowerCase(s) ==
    [i \in 1..Len(s) |->
        IF \E n \in 1..26 : UpperCase[n] = s[i]
        THEN LowerCase[CHOOSE n \in 1..26 : UpperCase[n] = s[i]]
        ELSE s[i]]

Digits == <<"0","1","2","3","4","5","6","7","8","9">>
IsDigit(c) == \E d \in 1..10 : Digits[d] = c
DigitValue(c) == (CHOOSE d \in 1..10 : Digits[d] = c) - 1

\* Number.prototype.toString for an integer: its decimal text
RECURSIVE NatToString(_)
NatToString(n) ==
    IF n < 10 THEN <<Digits[n + 1]>>
    ELSE NatToString(n \div 10) \o <<Digits[(n % 10) + 1]>>

NumberToString(n) == IF n < 0 THEN <<"-">> \o NatToString(0 - n) ELSE NatToString(n)

(***************************************************************************)
(* Translation values: TranslationValue = string | Record<string, unknown> *)
(* A value carries its JavaScript type; `props` are the own properties of  *)
(* an object, keyed by property name.                                      *)
(***************************************************************************)
Undefined == [type |-> "undefined", str |-> <<>>, num |-> 0, props |-> <<>>]
Null      == [type |-> "null", str |-> <<>>, num |-> 0, props |-> <<>>]
Arr       == [type |-> "array", str |-> <<>>, num |-> 0, props |-> <<>>]
Str(s)    == [type |-> "string", str |-> s, num |-> 0, props |-> <<>>]
Num(n)    == [type |-> "number", str |-> <<>>, num |-> n, props |-> <<>>]
Obj(p)    == [type |-> "object", str |-> <<>>, num |-> 0, props |-> p]

\* the JavaScript `typeof` operator
TypeOf(value) ==
    IF value.type \in {"object", "array", "null"} THEN "object" ELSE value.type

\* ToBoolean: undefined, null, "" and 0 are falsy
Truthy(value) ==
    CASE value.type \in {"undefined", "null"} -> FALSE
      [] value.type = "string" -> value.str # <<>>
      [] value.type = "number" -> value.num # 0
      [] OTHER -> TRUE

\* Array.isArray
IsArray(value) == value.type = "array"

\* the property read value[k]; a name the object does not have reads
\* undefined.  (Inherited names such as "constructor" read functions, which
\* the walk neither descends into nor returns; the keys of the model do not
\* spell them.)
GetProp(value, k) ==
    IF k \in DOMAIN value.props THEN value.props[k] ELSE Undefined

\* LocaleEntry that takes the entry of "en" for a locale without one
LocaleEntryOrEnglish(dict, loc) ==
    IF loc \in DOMAIN dict THEN dict[loc]
    ELSE IF <<"e", "n">> \in DOMAIN dict THEN dict[<<"e", "n">>]
    ELSE Undefined

\* this.translations[this.locale]
LocaleEntry(dict, loc) == IF loc \in DOMAIN dict THEN dict[loc] ELSE Undefined

(***************************************************************************)
(* class I18n                                                              *)
(***************************************************************************)
\* the guard of the walk's loop body: the value can be descended into
Descendable(value) ==
    Truthy(value) /\ TypeOf(value) = "object" /\ ~IsArray(value)

\* WalkFrom with `break` where the loop has `return`: the walk ends with the
\* value it could not descend into
RECURSIVE WalkFromBreaking(_, _, _)
WalkFromBreaking(value, keys, i) ==
    IF i > Len(keys) THEN [aborted |-> FALSE, value |-> value]
    ELSE IF Descendable(value)
         THEN WalkFromBreaking(GetProp(value, keys[i]), keys, i + 1)
    ELSE [aborted |-> FALSE, value |-> value]

\* `for (const k of keys)` of t() and has(), from segment i on: the value the
\* loop ends with, or aborted when a segment meets a value it cannot descend
RECURSIVE WalkFrom(_, _, _)
WalkFrom(value, keys, i) ==
    IF i > Len(keys) THEN [aborted |-> FALSE, value |-> value]
    ELSE IF Descendable(value) THEN WalkFrom(GetProp(value, keys[i]), keys, i + 1)
    ELSE [aborted |-> TRUE, value |-> value]

\* Walk without key.split("."): the whole key read as one property name
WalkUnsplit(dict, loc, k) == WalkFrom(LocaleEntry(dict, loc), <<k>>, 1)

\* the walk of t() and has(): the key's segments from the locale's entry
Walk(dict, loc, k) == WalkFrom(LocaleEntry(dict, loc), Split(k, <<".">>), 1)

\* Has with `value !== undefined` for `typeof value === "string"`
HasDefined(dict, loc, k) ==
    LET w == Walk(dict, loc, k)
    IN  IF w.aborted THEN FALSE ELSE w.value.type # "undefined"

\* I18n.has
Has(dict, loc, k) ==
    LET w == Walk(dict, loc, k)
    IN  IF w.aborted THEN FALSE ELSE TypeOf(w.value) = "string"

\* String(v) for a variable value v: string | number
ToStr(v) == IF v.type = "number" THEN NumberToString(v.num) ELSE v.str

\* the pattern source `{{${k}}}` built for the variable name k
PatternSource(k) == <<"{", "{">> \o k \o <<"}", "}">>

\* new RegExp(source) raises a SyntaxError for an unbalanced group: depth is
\* the number of groups open before position i.  Of the characters a
\* pattern reads specially, variable names are drawn with "." and "(" only.
RECURSIVE UnbalancedFrom(_, _, _)
UnbalancedFrom(source, i, depth) ==
    IF i > Len(source) THEN depth > 0
    ELSE IF source[i] = "(" THEN UnbalancedFrom(source, i + 1, depth + 1)
    ELSE IF source[i] = ")"
         THEN depth = 0 \/ UnbalancedFrom(source, i + 1, depth - 1)
    ELSE UnbalancedFrom(source, i + 1, depth)

RegExpThrows(source) == UnbalancedFrom(source, 1, 0)

LineTerminators == {"\n", "\r"}

\* one pattern character against one text character: `.` is any character
\* but a line terminator, every other pattern character of the model's
\* alphabet stands for itself (a brace not followed by digits is literal)
AtomMatches(p, c) == IF p = "." THEN c \notin LineTerminators ELSE p = c

\* the pattern matches the text at position i
MatchesAt(text, i, source) ==
    /\ i + Len(source) - 1 <= Len(text)
    /\ \A j \in 1..Len(source) : AtomMatches(source[j], text[i + j - 1])

\* GetSubstitution: the replacement text with its $ patterns expanded, for a
\* match of `len` characters at position i of text (the pattern has no
\* capture groups, so $1..$9 and $< stay literal)
RECURSIVE GetSubstitution(_, _, _, _, _)
GetSubstitution(text, i, len, replacement, j) ==
    IF j > Len(replacement) THEN <<>>
    ELSE IF replacement[j] = "$" /\ j < Len(replacement)
              /\ replacement[j + 1] \in {"$", "&", "`", "'"}
         THEN (CASE replacement[j + 1] = "$" -> <<"$">>
                 [] replacement[j + 1] = "&" -> SubSeq(text, i, i + len - 1)
                 [] replacement[j + 1] = "`" -> SubSeq(text, 1, i - 1)
                 [] replacement[j + 1] = "'" -> SubSeq(text, i + len, Len(text)))
              \o GetSubstitution(text, i, len, replacement, j + 2)
    ELSE <<replacement[j]>> \o GetSubstitution(text, i, len, replacement, j + 1)

\* text.replace(new RegExp(source, "g"), replacement), scanning from i
RECURSIVE ReplaceFrom(_, _, _, _)
ReplaceFrom(text, i, source, replacement) ==
    IF i > Len(text) THEN <<>>
    ELSE IF MatchesAt(text, i, source)
         THEN GetSubstitution(text, i, Len(source), replacement, 1)
              \o ReplaceFrom(text, i + Len(source), source, replacement)
    ELSE <<text[i]>> \o ReplaceFrom(text, i + 1, source, replacement)

Replace(text, source, replacement) == ReplaceFrom(text, 1, source, replacement)

\* Object.entries(vars).reduce(...), from entry i on, with accumulator text
RECURSIVE Reduce(_, _, _)
Reduce(text, entries, i) ==
    IF i > Len(entries) THEN [threw |-> FALSE, value |-> text]
    ELSE IF RegExpThrows(PatternSource(entries[i].k))
         THEN [threw |-> TRUE, value |-> <<>>]
    ELSE Reduce(Replace(text, PatternSource(entries[i].k), ToStr(entries[i].v)),
                entries, i + 1)

\* T without the line `if (typeof value !== "string") return key`
TUnchecked(dict, loc, k, vs) ==
    LET w == Walk(dict, loc, k)
    IN  IF w.aborted THEN [threw |-> FALSE, value |-> k]
        ELSE IF vs.given THEN Reduce(w.value.str, vs.entries, 1)
        ELSE [threw |-> FALSE, value |-> w.value.str]

\* T with `if (!value) return key` for the type check: an empty string
\* counts as missing
TTruthy(dict, loc, k, vs) ==
    LET w == Walk(dict, loc, k)
    IN  IF w.aborted THEN [threw |-> FALSE, value |-> k]
        ELSE IF TypeOf(w.value) # "string" \/ ~Truthy(w.value)
             THEN [threw |-> FALSE, value |-> k]
        ELSE IF vs.given THEN Reduce(w.value.str, vs.entries, 1)
        ELSE [threw |-> FALSE, value |-> w.value.str]

\* I18n.t
T(dict, loc, k, vs) ==
    LET w == Walk(dict, loc, k)
    IN  IF w.aborted THEN [threw |-> FALSE, value |-> k]
        ELSE IF TypeOf(w.value) # "string" THEN [threw |-> FALSE, value |-> k]
        ELSE IF vs.given THEN Reduce(w.value.str, vs.entries, 1)
        ELSE [threw |-> FALSE, value |-> w.value.str]

\* I18n.getLocale
GetLocale(loc) == loc

(***************************************************************************)
(* The configuration.  A JavaScript object is a function from its property *)
(* names to their values, so that an optional property is one the function *)
(* does not have and a spread copies the properties that are there.        *)
(***************************************************************************)
\* { ...a, ...b }
Spread(a, b) ==
    [p \in DOMAIN a \cup DOMAIN b |-> IF p \in DOMAIN b THEN b[p] ELSE a[p]]

\* the initial value of `config`
DefaultConfig ==
    [cookieName |-> <<"l", "a", "n", "g", "u", "a", "g", "e">>,
     defaultLanguage |-> <<"e", "n">>,
     supportedLanguages |-> << <<"e", "n">>, <<"d", "e">> >>,
     cookieOptions |->
        [path |-> <<"/">>,
         maxAge |-> 60 * 60 * 24 * 365,
         sameSite |-> <<"l", "a", "x">>,
         httpOnly |-> FALSE]]

\* Configured that adds the named supported languages to the current ones
ConfiguredAdding(cfg, options) ==
    Spread(Spread(cfg, options),
           IF "supportedLanguages" \in DOMAIN options
           THEN [supportedLanguages |-> cfg.supportedLanguages \o options.supportedLanguages,
                 cookieOptions |-> cfg.cookieOptions]
           ELSE [cookieOptions |-> cfg.cookieOptions])

\* Configured that replaces the cookie attributes as a whole: { ...config,
\* ...options } alone
ConfiguredReplacing(cfg, options) == Spread(cfg, options)

\* Configured that merges into the initial configuration, not the current
ConfiguredFromDefaults(cfg, options) ==
    Spread(Spread(DefaultConfig, options),
           [cookieOptions |->
               IF "cookieOptions" \in DOMAIN options
               THEN Spread(DefaultConfig.cookieOptions, options.cookieOptions)
               ELSE DefaultConfig.cookieOptions])

\* configure(options): the new value of `config`
Configured(cfg, options) ==
    Spread(Spread(cfg, options),
           [cookieOptions |->
               IF "cookieOptions" \in DOMAIN options
               THEN Spread(cfg.cookieOptions, options.cookieOptions)
               ELSE cfg.cookieOptions])

\* ConstructedLocale with the built-in "en" for an omitted locale
ConstructedLocaleBuiltIn(localeArg, cfg) ==
    IF Truthy(localeArg) THEN localeArg.str ELSE DefaultConfig.defaultLanguage

\* ConstructedLocale that takes a supported locale only
ConstructedLocaleSupported(localeArg, cfg) ==
    IF Truthy(localeArg)
          /\ \E n \in 1..Len(cfg.supportedLanguages) : cfg.supportedLanguages[n] = localeArg.str
    THEN localeArg.str
    ELSE cfg.defaultLanguage

\* the constructor's `locale || config.defaultLanguage`; localeArg is a
\* string value or Undefined
ConstructedLocale(localeArg, cfg) ==
    IF Truthy(localeArg) THEN localeArg.str ELSE cfg.defaultLanguage

(***************************************************************************)
(* Locale detection.                                                       *)
(***************************************************************************)
\* a number in thousandths, or NaN
Number(milli) == [nan |-> FALSE, milli |-> milli]
NaN == [nan |-> TRUE, milli |-> 0]

\* the longest prefix of s made of decimal digits
RECURSIVE DigitPrefix(_)
DigitPrefix(s) ==
    IF s # <<>> /\ IsDigit(s[1]) THEN <<s[1]>> \o DigitPrefix(Tail(s)) ELSE <<>>

\* the digits d read as an integer
RECURSIVE DigitsValue(_)
DigitsValue(d) ==
    IF d = <<>> THEN 0
    ELSE DigitsValue(SubSeq(d, 1, Len(d) - 1)) * 10 + DigitValue(d[Len(d)])

\* the fraction digits d in thousandths (a quality value has at most three)
FractionMilli(d) ==
    LET digit(n) == IF n <= Len(d) THEN DigitValue(d[n]) ELSE 0
    IN  digit(1) * 100 + digit(2) * 10 + digit(3)

RECURSIVE TrimStart(_)
TrimStart(s) == IF s # <<>> /\ s[1] \in WhiteSpace THEN TrimStart(Tail(s)) ELSE s

\* parseFloat: the longest prefix of the trimmed text that is a decimal
\* literal (sign, digits, fraction), NaN when there is none.  The quality
\* texts of the model hold no exponent and no "Infinity".
ParseFloat(s) ==
    LET t == TrimStart(s)
        signed == t # <<>> /\ t[1] \in {"+", "-"}
        body == IF signed THEN Tail(t) ELSE t
        int == DigitPrefix(body)
        rest == SubSeq(body, Len(int) + 1, Len(body))
        frac == IF rest # <<>> /\ rest[1] = "." THEN DigitPrefix(Tail(rest)) ELSE <<>>
        milli == DigitsValue(int) * 1000 + FractionMilli(frac)
    IN  IF int = <<>> /\ frac = <<>> THEN NaN
        ELSE Number(IF signed /\ t[1] = "-" THEN 0 - milli ELSE milli)

\* ParseEntry that keeps the region: the whole tag in lower case
ParseEntryWholeTag(lang) ==
    LET parts == Split(Trim(lang), <<";", "q", "=">>)
        code == parts[1]
        hasPriority == Len(parts) >= 2 /\ parts[2] # <<>>
    IN  [code |-> ToLowerCase(code),
         priority |-> IF hasPriority THEN ParseFloat(parts[2]) ELSE Number(1000)]

\* the callback of .map(): one header entry as {code, priority}
ParseEntry(lang) ==
    LET parts == Split(Trim(lang), <<";", "q", "=">>)
        code == parts[1]
        hasPriority == Len(parts) >= 2 /\ parts[2] # <<>>
    IN  [code |-> ToLowerCase(Split(code, <<"-">>)[1]),
         priority |-> IF hasPriority THEN ParseFloat(parts[2]) ELSE Number(1000)]

\* acceptLanguage.split(",").map(...)
ParseHeader(header) ==
    LET entries == Split(header, <<",">>)
    IN  [i \in 1..Len(entries) |-> ParseEntry(entries[i])]

\* the comparator (a, b) => b.priority - a.priority as .sort() reads it:
\* negative when a goes first, and a NaN result counts as 0
SortCompare(a, b) ==
    IF a.priority.nan \/ b.priority.nan THEN 0
    ELSE b.priority.milli - a.priority.milli

IndexOrders(n) ==
    {p \in [1..n -> 1..n] : \A i, j \in 1..n : p[i] = p[j] => i = j}

\* .sort(comparator): a stable sort leaves every adjacent pair in comparator
\* order, elements that compare equal in their original order.  When no
\* priority is NaN that is one order.  With a NaN priority the comparator
\* is inconsistent and the order is implementation-defined: every order a
\* stable sort can leave is an outcome.
SortOutcomes(languages) ==
    LET n == Len(languages)
        InOrder(p) ==
            \A i \in 1..(n - 1) :
                LET c == SortCompare(languages[p[i]], languages[p[i + 1]])
                IN  c < 0 \/ (c = 0 /\ p[i] < p[i + 1])
    IN  {[i \in 1..n |-> languages[p[i]]] : p \in {q \in IndexOrders(n) : InOrder(q)}}

\* Includes that asks the initial supported languages, whatever the list
IncludesInitial(list, code) ==
    \E i \in 1..Len(DefaultConfig.supportedLanguages) :
        DefaultConfig.supportedLanguages[i] = code

\* config.supportedLanguages.includes(code)
Includes(list, code) == \E i \in 1..Len(list) : list[i] = code

\* FirstSupported that falls back to the header's first language
FirstSupportedOrFirst(languages, cfg) ==
    LET hits == {i \in 1..Len(languages) :
                    Includes(cfg.supportedLanguages, languages[i].code)}
    IN  IF hits = {} THEN languages[1].code
        ELSE languages[CHOOSE i \in hits : \A j \in hits : i <= j].code

\* the loop over the sorted languages, and the fall-back after it
FirstSupported(languages, cfg) ==
    LET hits == {i \in 1..Len(languages) :
                    Includes(cfg.supportedLanguages, languages[i].code)}
    IN  IF hits = {} THEN cfg.defaultLanguage
        ELSE languages[CHOOSE i \in hits : \A j \in hits : i <= j].code

\* GetBrowserLanguage that answers a missing header with the built-in "en"
GetBrowserLanguageBuiltIn(header, cfg) ==
    IF ~Truthy(header) THEN {DefaultConfig.defaultLanguage}
    ELSE {FirstSupported(sorted, cfg) : sorted \in SortOutcomes(ParseHeader(header.str))}

\* getBrowserLanguage: the languages it can return; header is a string
\* value or Null
GetBrowserLanguage(header, cfg) ==
    IF ~Truthy(header) THEN {cfg.defaultLanguage}
    ELSE {FirstSupported(sorted, cfg) : sorted \in SortOutcomes(ParseHeader(header.str))}

\* cookies.get(name)
CookieGet(jar, name) == IF name \in DOMAIN jar THEN Str(jar[name].value) ELSE Undefined

\* GetLanguage that trusts the cookie only when it names a supported language
GetLanguageValidating(jar, header, cfg) ==
    LET language == CookieGet(jar, cfg.cookieName)
    IN  IF Truthy(language) /\ Includes(cfg.supportedLanguages, language.str)
        THEN {language.str}
        ELSE GetBrowserLanguage(header, cfg)

\* GetLanguage with `language !== undefined` for the truthiness of the
\* cookie: an empty cookie is returned
GetLanguageDefined(jar, header, cfg) ==
    LET language == CookieGet(jar, cfg.cookieName)
    IN  IF language.type # "undefined" THEN {language.str}
        ELSE GetBrowserLanguage(header, cfg)

\* GetLanguage that asks the header first and the cookie only without one
GetLanguageHeaderFirst(jar, header, cfg) ==
    LET language == CookieGet(jar, cfg.cookieName)
    IN  IF Truthy(header) \/ ~Truthy(language) THEN GetBrowserLanguage(header, cfg)
        ELSE {language.str}

\* getLanguage: the languages it can return
GetLanguage(jar, header, cfg) ==
    LET language == CookieGet(jar, cfg.cookieName)
    IN  IF Truthy(language) THEN {language.str} ELSE GetBrowserLanguage(header, cfg)

\* cookies.set(name, value, options) on the store
CookieSet(jar, name, value, options) ==
    Spread(jar, [n \in {name} |-> [value |-> value, options |-> options]])

\* SetLanguage with the initial cookie attributes, whatever is configured
SetLanguageInitialOptions(jar, language, cfg) ==
    CookieSet(jar, cfg.cookieName, language, DefaultConfig.cookieOptions)

\* setLanguage: the store after it
SetLanguage(jar, language, cfg) ==
    CookieSet(jar, cfg.cookieName, language, cfg.cookieOptions)

(***************************************************************************)
(* Inputs.                                                                 *)
(***************************************************************************)
En == <<"e", "n">>
De == <<"d", "e">>
Fr == <<"f", "r">>
Ok == <<"o", "k">>

NoVars == [given |-> FALSE, entries |-> <<>>]
Vars(entries) == [given |-> TRUE, entries |-> entries]

\* objects with the property names `names` and property values from `values`
ObjectsOver(names, values) == {Obj(p) : p \in [names -> values]}

PropNames == {<<"a">>, <<"b">>}
Level0 == {Undefined, Str(Ok), Obj(<<>>)}
Level1 == {Undefined, Str(Ok), Str(<<>>), Arr, Num(0)} \cup ObjectsOver(PropNames, Level0)

\* the German entry of the generated dictionaries: a string under every name
DeTree == Obj([n \in PropNames |-> Str(<<"j", "a">>)])

\* generated dictionaries, constructed with the locale "en": every tree of
\* depth two over PropNames as the English entry
GeneratedInstances ==
    {[translations |-> [l \in {En, De} |-> IF l = En THEN tree ELSE DeTree],
      localeArg |-> Str(En)] : tree \in ObjectsOver(PropNames, Level1)}

\* a tree with an empty property name, a dotted property name and depth three
DeepTree ==
    Obj([n \in {<<>>, <<"a">>, <<"a", ".", "b">>} |->
            CASE n = <<>> -> Str(<<"e">>)
              [] n = <<"a">> ->
                    Obj([m \in {<<>>, <<"b">>} |->
                            IF m = <<>> THEN Str(Ok)
                            ELSE Obj([o \in {<<"a">>} |-> Str(<<"d", "e", "e", "p">>)])])
              [] OTHER -> Str(<<"d", "o", "t">>)])

\* further dictionaries and constructor arguments: the empty dictionary, a
\* locale without an entry, an omitted and an empty locale argument, and
\* locale entries that are no objects
ChosenInstances ==
    {[translations |-> <<>>, localeArg |-> Str(En)],
     [translations |-> [l \in {En} |-> DeepTree], localeArg |-> Str(En)],
     [translations |-> [l \in {En} |-> DeepTree], localeArg |-> Undefined],
     [translations |-> [l \in {En} |-> DeepTree], localeArg |-> Str(<<>>)],
     [translations |-> [l \in {En} |-> DeepTree], localeArg |-> Str(Fr)],
     [translations |-> [l \in {En, De} |-> IF l = En THEN DeepTree ELSE DeTree],
      localeArg |-> Str(De)],
     [translations |-> [l \in {En} |-> Str(Ok)], localeArg |-> Str(En)],
     [translations |-> [l \in {En} |-> Null], localeArg |-> Str(En)],
     [translations |-> [l \in {En} |-> Arr], localeArg |-> Str(En)]}

KeyChars == {"a", "b", "."}
\* every short key, and one of three segments
Keys == UNION {[1..n -> KeyChars] : n \in 0..MaxKeyLen} \cup {<<"a", ".", "b", ".", "a">>}

\* translation strings with placeholders
Templates ==
    {<<>>,
     <<"h", "i">>,
     <<"{", "{", "x", "}", "}">>,
     <<"{", "{", "x", "}", "}", "-", "{", "{", "x", "}", "}">>,
     <<"{", "{", "x", "}", "}", " ", "{", "{", "y", "}", "}">>,
     <<"{", "{", "y", "}", "}">>,
     <<"{", "{", ".", "}", "}">>,
     <<"{", "{", "x", "}">>,
     <<"{", "{", "(", "}", "}">>,
     <<"$", "{", "{", "x", "}", "}", "&">>}

\* variable names: two plain ones and two that a pattern reads specially
VarNames == {<<"x">>, <<"y">>, <<".">>, <<"(">>}
VarValues == {Str(<<"T">>), Str(<<"$", "&">>), Str(<<"{", "{", "y", "}", "}">>), Num(0), Num(12)}

\* variable maps of n entries in insertion order, their names distinct
RECURSIVE EntriesOf(_)
EntriesOf(n) ==
    IF n = 0 THEN {<<>>}
    ELSE {Append(es, [k |-> name, v |-> value]) :
            es \in EntriesOf(n - 1), name \in VarNames, value \in VarValues}

DistinctNames(es) == \A i, j \in 1..Len(es) : es[i].k = es[j].k => i = j

VarMaps ==
    {Vars(es) : es \in {e \in UNION {EntriesOf(n) : n \in 0..MaxVars} : DistinctNames(e)}}

\* the instance of the substitution inputs: one string under the key "a"
TemplateInstance(template) ==
    [translations |-> [l \in {En} |-> Obj([n \in {<<"a">>} |-> Str(template)])],
     localeArg |-> Str(En)]

\* header entries: a language tag, alone or with a quality that is a number
\* or is malformed
Tags == {En, De, Fr}
Qualities == {<<>>, <<";", "q", "=", "0", ".", "5">>, <<";", "q", "=", "x">>}
HeaderEntries == {tag \o q : tag \in Tags, q \in Qualities}

RECURSIVE HeadersOf(_)
HeadersOf(n) ==
    IF n = 1 THEN HeaderEntries
    ELSE {h \o <<",">> \o e : h \in HeadersOf(n - 1), e \in HeaderEntries}

\* headers with region codes, upper case, spaces and further qualities
ChosenHeaders ==
    {<<>>,
     <<"d", "e", "-", "D", "E", ",", "d", "e", ";", "q", "=", "0", ".", "9", ",", "e", "n", ";", "q", "=", "0", ".", "8">>,
     <<"f", "r", ";", "q", "=", "0", ".", "5", ",", "d", "e", ";", "q", "=", "0", ".", "9", ",", "e", "n", ";", "q", "=", "0", ".", "7">>,
     <<"e", "n", "-", "U", "S">>,
     <<"E", "N">>,
     <<"i", "n", "v", "a", "l", "i", "d", ";", ";", ";", "f", "o", "r", "m", "a", "t">>,
     <<"f", "r", ",", " ", "d", "e">>,
     <<"e", "n", ";", "q", "=", ",", "d", "e", ";", "q", "=", "0", ".", "9", "x">>,
     <<"e", "n", ";", "q", "=", "0", ".", "5", ";", "q", "=", "0", ".", "9", ",", "d", "e", ";", "q", "=", "0", ".", "7">>,
     <<"e", "n", ";", "q", "=", "0", ".", "5", ",", "f", "r", ";", "q", "=", "x", ",", "d", "e", ";", "q", "=", "0", ".", "9">>}

\* the argument acceptLanguage: string | null
Headers ==
    {Null} \cup {Str(h) : h \in ChosenHeaders \cup UNION {HeadersOf(n) : n \in 1..MaxEntries}}

Language == <<"l", "a", "n", "g", "u", "a", "g", "e">>
Lang == <<"l", "a", "n", "g">>

\* a cookie as the browser sent it: a value, no attributes
Sent(value) == [value |-> value, options |-> <<>>]

\* the cookie stores a request arrives with
SentCookies ==
    {<<>>,
     [n \in {Language} |-> Sent(<<"x", "x">>)],
     [n \in {Language} |-> Sent(<<>>)],
     [n \in {Language, Lang} |-> IF n = Language THEN Sent(De) ELSE Sent(Fr)]}

\* arguments of configure()
ConfigureOptions ==
    {[supportedLanguages |-> <<Fr>>],
     [defaultLanguage |-> Fr],
     [cookieName |-> Lang]}

Strict == <<"s", "t", "r", "i", "c", "t">>

\* arguments of configure() to the configuration store: the empty object,
\* single top-level fields (an empty default language among them), and
\* cookie attributes alone and together
StoreOptions ==
    {<<>>,
     [defaultLanguage |-> De],
     [defaultLanguage |-> <<>>],
     [supportedLanguages |-> <<En, De>>],
     [cookieName |-> Lang],
     [cookieOptions |-> [maxAge |-> 100]],
     [cookieOptions |->
        [path |-> <<"/", "a">>, sameSite |-> Strict, httpOnly |-> TRUE, secure |-> TRUE]]}

\* arguments `language` of setLanguage()
SetLanguages == {De, <<>>}

\* headers of a session: none, a supported and an unsupported language, a
\* region code, a malformed quality
SessionHeaders ==
    {Null,
     Str(En),
     Str(Fr),
     Str(<<"d", "e", "-", "D", "E">>),
     Str(<<"d", "e", ";", "q", "=", "0", ".", "5", ",", "e", "n", ";", "q", "=", "x">>)}

\* a dictionary with the key "a" in three languages
Greetings ==
    [l \in {En, De, Fr} |->
        Obj([n \in {<<"a">>} |->
                Str(CASE l = En -> <<"h", "e", "l", "l", "o">>
                      [] l = De -> <<"h", "a", "l", "l", "o">>
                      [] OTHER -> <<"s", "a", "l", "u", "t">>)])]

\* arguments `locale` of the constructor: omitted, supported, empty,
\* unsupported
LocaleArgs == {Undefined, Str(De), Str(<<>>), Str(Fr)}

\* language codes to configure as supported: plain ones, one with a
\* region, one in upper case
SelectCodes == {En, De, Fr, <<"e", "n", "-", "U", "S">>, <<"E", "N">>}

\* arguments of configure() that name a supported set or a default language
SelectOptions ==
    {[supportedLanguages |-> list] :
        list \in UNION {[1..n -> SelectCodes] : n \in 0..MaxSupported}}
    \cup {[defaultLanguage |-> Fr]}

\* headers that are one of the codes, and headers with qualities
SelectHeaders ==
    {Null, Str(<<>>)}
    \cup {Str(code) : code \in SelectCodes}
    \cup {Str(<<"f", "r", ";", "q", "=", "0", ".", "5", ",", "d", "e">>),
          Str(<<"d", "e", ";", "q", "=", "0", ".", "5", ",", "e", "n", ";", "q", "=", "x">>)}

(***************************************************************************)
(* The translator: an I18n instance after its construction, and the calls  *)
(* of its methods on a key and a variable map.                             *)
(***************************************************************************)
\* no setLanguage() call yet
NoSet == [called |-> FALSE, language |-> <<>>, config |-> DefaultConfig]

NoCall ==
    /\ op = "new"
    /\ returned = <<>>
    /\ found = FALSE
    /\ threw = FALSE

Constructed(instance) ==
    /\ config = DefaultConfig
    /\ translations = instance.translations
    /\ locale = ConstructedLocale(instance.localeArg, config)
    /\ built = [localeArg |-> instance.localeArg, config |-> config]
    /\ cookies = <<>>
    /\ acceptLanguage = Null
    /\ lastOptions = <<>>
    /\ lastSet = NoSet
    /\ NoCall

\* lookups: every generated and chosen dictionary, every key
InitLookup ==
    /\ \E instance \in GeneratedInstances \cup ChosenInstances : Constructed(instance)
    /\ key \in Keys
    /\ vars \in {NoVars, Vars(<<[k |-> <<"x">>, v |-> Str(<<"T">>)]>>)}

\* substitutions: every template under the key "a", every variable map
InitSubstitute ==
    /\ \E template \in Templates : Constructed(TemplateInstance(template))
    /\ key = <<"a">>
    /\ vars \in {NoVars} \cup VarMaps

InitT == InitLookup \/ InitSubstitute

CallT ==
    LET r == T(translations, locale, key, vars)
    IN  /\ op' = "t"
        /\ threw' = r.threw
        /\ returned' = r.value
        /\ found' = FALSE
        /\ UNCHANGED <<config, cookies, translations, locale, key, vars, acceptLanguage,
                     lastOptions, built, lastSet>>

CallHas ==
    /\ op' = "has"
    /\ found' = Has(translations, locale, key)
    /\ returned' = <<>>
    /\ threw' = FALSE
    /\ UNCHANGED <<config, cookies, translations, locale, key, vars, acceptLanguage,
                     lastOptions, built, lastSet>>

CallGetLocale ==
    /\ op' = "getLocale"
    /\ returned' = GetLocale(locale)
    /\ found' = FALSE
    /\ threw' = FALSE
    /\ UNCHANGED <<config, cookies, translations, locale, key, vars, acceptLanguage,
                     lastOptions, built, lastSet>>

NextT == CallT \/ CallHas \/ CallGetLocale

SpecT == InitT /\ [][NextT]_allVars

(***************************************************************************)
(* The locale resolver: a request's cookies and Accept-Language header,    *)
(* configure() and getLanguage().                                          *)
(***************************************************************************)
InitLang ==
    /\ config = DefaultConfig
    /\ cookies \in SentCookies
    /\ acceptLanguage \in Headers
    /\ translations = <<>>
    /\ locale = config.defaultLanguage
    /\ built = [localeArg |-> Undefined, config |-> config]
    /\ key = <<>>
    /\ vars = NoVars
    /\ lastOptions = <<>>
    /\ lastSet = NoSet
    /\ NoCall

\* configure(o)
Configure(o) ==
    /\ config' = Configured(config, o)
    /\ lastOptions' = o
    /\ op' = "configure"
    /\ returned' = <<>>
    /\ found' = FALSE
    /\ threw' = FALSE
    /\ UNCHANGED <<cookies, translations, locale, key, vars, acceptLanguage,
                   built, lastSet>>

CallConfigure == \E o \in ConfigureOptions : Configure(o)

\* getLanguage() that stores the language it found in the cookie
CallGetLanguageSaving ==
    \E language \in GetLanguage(cookies, acceptLanguage, config) :
        /\ cookies' = SetLanguage(cookies, language, config)
        /\ op' = "getLanguage"
        /\ returned' = language
        /\ found' = FALSE
        /\ threw' = FALSE
        /\ UNCHANGED <<config, translations, locale, key, vars, acceptLanguage,
                       lastOptions, built, lastSet>>

CallGetLanguage ==
    \E language \in GetLanguage(cookies, acceptLanguage, config) :
        /\ op' = "getLanguage"
        /\ returned' = language
        /\ found' = FALSE
        /\ threw' = FALSE
        /\ UNCHANGED <<config, cookies, translations, locale, key, vars, acceptLanguage,
                     lastOptions, built, lastSet>>

NextLang == CallConfigure \/ CallGetLanguage

SpecLang == InitLang /\ [][NextLang]_allVars

(***************************************************************************)
(* The configuration store: configure() with every kind of partial, and    *)
(* setLanguage() writing the cookie the configuration describes.           *)
(***************************************************************************)
InitStore ==
    /\ config = DefaultConfig
    /\ cookies = <<>>
    /\ acceptLanguage = Null
    /\ translations = <<>>
    /\ locale = config.defaultLanguage
    /\ built = [localeArg |-> Undefined, config |-> config]
    /\ key = <<>>
    /\ vars = NoVars
    /\ lastOptions = <<>>
    /\ lastSet = NoSet
    /\ NoCall

CallConfigureStore == \E o \in StoreOptions : Configure(o)

\* setLanguage(cookies, language)
CallSetLanguage ==
    \E language \in SetLanguages :
        /\ cookies' = SetLanguage(cookies, language, config)
        /\ lastSet' = [called |-> TRUE, language |-> language, config |-> config]
        /\ op' = "setLanguage"
        /\ returned' = <<>>
        /\ found' = FALSE
        /\ threw' = FALSE
        /\ UNCHANGED <<config, translations, locale, key, vars, acceptLanguage,
                       lastOptions, built>>

NextStore == CallConfigureStore \/ CallSetLanguage

SpecStore == InitStore /\ [][NextStore]_allVars

(***************************************************************************)
(* A session: the cookie store and header of a request, with setLanguage() *)
(* and getLanguage() on that store and configure() between them.           *)
(***************************************************************************)
InitSession ==
    /\ config = DefaultConfig
    /\ cookies \in SentCookies
    /\ acceptLanguage \in SessionHeaders
    /\ translations = <<>>
    /\ locale = config.defaultLanguage
    /\ built = [localeArg |-> Undefined, config |-> config]
    /\ key = <<>>
    /\ vars = NoVars
    /\ lastOptions = <<>>
    /\ lastSet = NoSet
    /\ NoCall

NextSession == CallConfigure \/ CallSetLanguage \/ CallGetLanguage

SpecSession == InitSession /\ [][NextSession]_allVars

(***************************************************************************)
(* An instance: I18n instances constructed before and after configure(),   *)
(* the latest one asked for its locale and for a translation.              *)
(***************************************************************************)
InitInstance ==
    /\ \E localeArg \in LocaleArgs :
          Constructed([translations |-> Greetings, localeArg |-> localeArg])
    /\ key = <<"a">>
    /\ vars = NoVars

\* new I18n(translations, localeArg)
CallConstruct ==
    \E localeArg \in LocaleArgs :
        /\ locale' = ConstructedLocale(localeArg, config)
        /\ built' = [localeArg |-> localeArg, config |-> config]
        /\ op' = "new"
        /\ returned' = <<>>
        /\ found' = FALSE
        /\ threw' = FALSE
        /\ UNCHANGED <<config, cookies, translations, key, vars, acceptLanguage,
                       lastOptions, lastSet>>

NextInstance == CallConstruct \/ CallConfigure \/ CallGetLocale \/ CallT

SpecInstance == InitInstance /\ [][NextInstance]_allVars

(***************************************************************************)
(* Selection: configure() naming supported sets one after another, and     *)
(* getLanguage() on a request without cookies.                             *)
(***************************************************************************)
InitSelect ==
    /\ config = DefaultConfig
    /\ cookies = <<>>
    /\ acceptLanguage \in SelectHeaders
    /\ translations = <<>>
    /\ locale = config.defaultLanguage
    /\ built = [localeArg |-> Undefined, config |-> config]
    /\ key = <<>>
    /\ vars = NoVars
    /\ lastOptions = <<>>
    /\ lastSet = NoSet
    /\ NoCall

CallConfigureSelect == \E o \in SelectOptions : Configure(o)

NextSelect == CallConfigureSelect \/ CallGetLanguage

SpecSelect == InitSelect /\ [][NextSelect]_allVars

(***************************************************************************)
(* A request: its cookies and header, an instance over Greetings, and the  *)
(* calls that only read: getLanguage(), t(), has(), getLocale().           *)
(***************************************************************************)
InitRequest ==
    /\ config = DefaultConfig
    /\ cookies \in SentCookies
    /\ acceptLanguage \in SessionHeaders
    /\ translations = Greetings
    /\ \E localeArg \in LocaleArgs :
          /\ locale = ConstructedLocale(localeArg, config)
          /\ built = [localeArg |-> localeArg, config |-> config]
    /\ key = <<"a">>
    /\ vars = NoVars
    /\ lastOptions = <<>>
    /\ lastSet = NoSet
    /\ NoCall

NextRequest ==
    CallConfigure \/ CallGetLanguage \/ CallT \/ CallHas \/ CallGetLocale

SpecRequest == InitRequest /\ [][NextRequest]_allVars

(***************************************************************************)
(* Properties of the translator (SpecT).                                   *)
(***************************************************************************)
\* the value at the end of a property path below the locale's entry:
\* a segment leads on only from an object that has a property of that name
RECURSIVE ValueAtPath(_, _, _)
ValueAtPath(dict, loc, segments) ==
    IF segments = <<>>
    THEN IF loc \in DOMAIN dict THEN dict[loc] ELSE Undefined
    ELSE LET parent == ValueAtPath(dict, loc, SubSeq(segments, 1, Len(segments) - 1))
             name == segments[Len(segments)]
         IN  IF parent.type = "object" /\ name \in DOMAIN parent.props
             THEN parent.props[name]
             ELSE Undefined

Segments == Split(key, <<".">>)
Target == ValueAtPath(translations, locale, Segments)

\* C1: when the path of the key is not present in the locale's entry (a
\* segment is missing, or a value that is no mapping is reached while
\* segments remain), t(key) returns the key unchanged.
C1_AbsentPathReturnsKey ==
    (op = "t" /\ Target.type = "undefined") => (~threw /\ returned = key)

\* t() ran with variables on a key whose first segment is a string but
\* which has more segments, and returned the key
C1_Witness ==
    /\ op = "t"
    /\ vars.given
    /\ Len(Segments) >= 2
    /\ Segments[1] # <<>>
    /\ ValueAtPath(translations, locale, <<Segments[1]>>).type = "string"
    /\ Target.type = "undefined"
    /\ returned = key

\* C2: when the walk of the key's segments ends at a string, at any depth,
\* t(key) without variables returns exactly that string.
C2_LeafReturned ==
    (op = "t" /\ ~vars.given /\ Target.type = "string")
        => (~threw /\ returned = Target.str)

\* t() ran without variables on a key of three segments and returned the
\* non-empty string found there
C2_Witness ==
    /\ op = "t"
    /\ ~vars.given
    /\ Len(Segments) = 3
    /\ Target.type = "string"
    /\ Target.str # <<>>
    /\ returned = Target.str
    /\ returned # key

\* the names n for which the text holds a placeholder {{n}}
PlaceholderNames(text) ==
    {SubSeq(text, i + 2, j - 1) : <<i, j>> \in
        {ij \in (1..Len(text)) \X (1..Len(text)) :
            /\ ij[2] >= ij[1] + 3
            /\ OccursAt(text, <<"{", "{">>, ij[1])
            /\ OccursAt(text, <<"}", "}">>, ij[2])
            /\ \A m \in (ij[1] + 2)..(ij[2] - 1) : text[m] \notin {"{", "}"}}}

EntryNames(entries) == {entries[n].k : n \in 1..Len(entries)}

\* the text with every placeholder {{x}} named by an entry replaced by the
\* string form of the entry's value, everything else kept, from position i
RECURSIVE Substituted(_, _, _)
Substituted(text, entries, i) ==
    LET hits == {n \in 1..Len(entries) : OccursAt(text, PatternSource(entries[n].k), i)}
    IN  IF i > Len(text) THEN <<>>
        ELSE IF hits # {}
             THEN LET e == entries[CHOOSE n \in hits : TRUE]
                  IN  ToStr(e.v) \o Substituted(text, entries, i + Len(e.k) + 4)
        ELSE <<text[i]>> \o Substituted(text, entries, i + 1)

\* C3: t() replaces all occurrences of each placeholder {{x}} whose name is
\* a key of the variable map with the string form of the variable's value,
\* for every possible value.  (Stated where every placeholder of the text
\* is named in the map.)
C3_PlaceholdersReplaced ==
    (/\ op = "t"
     /\ ~threw
     /\ vars.given
     /\ Target.type = "string"
     /\ PlaceholderNames(Target.str) # {}
     /\ PlaceholderNames(Target.str) \subseteq EntryNames(vars.entries))
        => returned = Substituted(Target.str, vars.entries, 1)

\* C4: every placeholder {{y}} whose name is not a key of the variable map
\* is left verbatim, whatever names the map contains.  (Stated where no
\* placeholder of the text is named in the map: the text comes back as is.)
C4_UnnamedPlaceholdersKept ==
    (/\ op = "t"
     /\ ~threw
     /\ Target.type = "string"
     /\ PlaceholderNames(Target.str) # {}
     /\ PlaceholderNames(Target.str) \cap EntryNames(vars.entries) = {})
        => returned = Target.str

\* C5: t() has no error path: it never raises, whatever the dictionary,
\* locale, key and variable names.
C5_NeverRaises == op = "t" => ~threw

\* C6: has(key) returns true if and only if the walk of the key's segments
\* ends at a string.
C6_HasIffString == op = "has" => (found <=> Target.type = "string")

\* has() ran on a key of two or more segments and returned true
C6_Witness ==
    /\ op = "has"
    /\ Len(Segments) >= 2
    /\ Target.type = "string"
    /\ found

\* C7: when the path of the key resolves to a sub-mapping, t(key) returns
\* the key unchanged and has(key) returns false.
C7_SubMappingIsNotFound ==
    Target.type = "object" =>
        /\ op = "t" => (~threw /\ returned = key)
        /\ op = "has" => ~found

\* t() ran with variables on a key that resolves to a mapping with
\* properties, and returned the key
C7_Witness ==
    /\ op = "t"
    /\ vars.given
    /\ Target.type = "object"
    /\ DOMAIN Target.props # {}
    /\ key # <<>>
    /\ returned = key

C22_InvalidLocaleUsesDefault ==
    (/\ op = "t"
     /\ ~vars.given
     /\ built.localeArg.type = "string"
     /\ built.localeArg.str \notin DOMAIN translations
     /\ ValueAtPath(translations, built.config.defaultLanguage, Segments).type = "string")
        => returned = ValueAtPath(translations, built.config.defaultLanguage, Segments).str

\* C26: a leaf that is the empty string is a translation: t(key) returns
\* the empty string for it, not the key (without variables always, with
\* variables whenever it returns), and has(key) returns true.
C26_EmptyStringIsTranslation ==
    Target = Str(<<>>) =>
        /\ op = "t" => ((~vars.given => ~threw) /\ (~threw => returned = <<>>))
        /\ op = "has" => found

\* t() ran without variables on a non-empty key whose leaf is the empty
\* string, and returned the empty string
C26_Witness ==
    /\ op = "t"
    /\ ~vars.given
    /\ Target = Str(<<>>)
    /\ key # <<>>
    /\ ~threw
    /\ returned = <<>>

\* the entries of a variable map without entry i
WithoutEntry(entries, i) ==
    [n \in 1..(Len(entries) - 1) |-> IF n < i THEN entries[n] ELSE entries[n + 1]]

\* C27: extra variables are ignored: when the translation string holds no
\* placeholder {{v}} for a variable v of the map, t() gives the result it
\* gives for the map without v.
C27_ExtraVariablesIgnored ==
    (op = "t" /\ vars.given /\ Target.type = "string") =>
        \A i \in 1..Len(vars.entries) :
            vars.entries[i].k \notin PlaceholderNames(Target.str) =>
                T(translations, locale, key, Vars(WithoutEntry(vars.entries, i)))
                    = [threw |-> threw, value |-> returned]

\* text without a character that a pattern or a replacement reads
\* specially
PlainText(text) == \A n \in 1..Len(text) : text[n] \notin {".", "(", ")", "$"}

\* the entries in the order p
Reordered(entries, p) == [n \in 1..Len(entries) |-> entries[p[n]]]

\* C28: substitution is simultaneous: t() gives the same result for every
\* order of the variable map's entries, and the result is the translation
\* string with its own placeholders replaced, text that was inserted for a
\* variable not being scanned again.  (Stated for names and values without
\* special characters.)
C28_SubstitutionIsSimultaneous ==
    (/\ op = "t"
     /\ vars.given
     /\ Target.type = "string"
     /\ \A i \in 1..Len(vars.entries) :
            PlainText(vars.entries[i].k) /\ PlainText(ToStr(vars.entries[i].v)))
        => /\ ~threw
           /\ returned = Substituted(Target.str, vars.entries, 1)
           /\ \A p \in IndexOrders(Len(vars.entries)) :
                 T(translations, locale, key, Vars(Reordered(vars.entries, p))).value
                    = returned

(***************************************************************************)
(* Properties of the locale resolver (SpecLang).                           *)
(***************************************************************************)
\* the language cookie: the cookie of the configured name
HasCookie == config.cookieName \in DOMAIN cookies
CookieValue == cookies[config.cookieName].value

\* the header's candidates and the supported ones among them
Candidates == ParseHeader(acceptLanguage.str)
SupportedCandidates ==
    {i \in 1..Len(Candidates) :
        \E n \in 1..Len(config.supportedLanguages) :
            config.supportedLanguages[n] = Candidates[i].code}

\* C8: when the language cookie holds a non-empty value, getLanguage
\* returns that value as it is, for every header and whether or not the
\* value is a supported language.
C8_CookieReturnedVerbatim ==
    (op = "getLanguage" /\ HasCookie /\ CookieValue # <<>>)
        => (~threw /\ returned = CookieValue)

\* getLanguage ran with a cookie that names no supported language while the
\* header offers a supported one, and returned the cookie's value
C8_Witness ==
    /\ op = "getLanguage"
    /\ HasCookie
    /\ CookieValue # <<>>
    /\ \A n \in 1..Len(config.supportedLanguages) :
            config.supportedLanguages[n] # CookieValue
    /\ acceptLanguage.type = "string"
    /\ acceptLanguage.str # <<>>
    /\ SupportedCandidates # {}
    /\ returned = CookieValue

\* candidate i goes before candidate j: a higher quality, or the same
\* quality and earlier in the header (no order between a number and NaN)
RanksBefore(i, j) ==
    LET a == Candidates[i].priority
        b == Candidates[j].priority
    IN  /\ ~a.nan
        /\ ~b.nan
        /\ a.milli > b.milli \/ (a.milli = b.milli /\ i < j)

\* C9: with no cookie and a non-empty header, getLanguage returns the
\* supported candidate of the highest quality, the earliest in the header
\* among those of equal quality.
C9_HighestQualityWins ==
    (/\ op = "getLanguage"
     /\ ~HasCookie
     /\ acceptLanguage.type = "string"
     /\ acceptLanguage.str # <<>>
     /\ SupportedCandidates # {})
        => \E w \in SupportedCandidates :
                /\ returned = Candidates[w].code
                /\ \A j \in SupportedCandidates : ~RanksBefore(j, w)

\* the quality of candidate i with a malformed quality read as 1.0
QualityOrOne(i) ==
    IF Candidates[i].priority.nan THEN 1000 ELSE Candidates[i].priority.milli

\* C10: an entry with a malformed quality does not make getLanguage raise
\* and is ranked as if its quality were 1.0, ahead of every entry of a
\* lower quality wherever it stands in the header.
C10_MalformedQualityIsOne ==
    (/\ op = "getLanguage"
     /\ ~HasCookie
     /\ acceptLanguage.type = "string"
     /\ acceptLanguage.str # <<>>
     /\ \E i \in 1..Len(Candidates) : Candidates[i].priority.nan
     /\ SupportedCandidates # {})
        => /\ ~threw
           /\ \E w \in SupportedCandidates :
                /\ returned = Candidates[w].code
                /\ \A j \in SupportedCandidates :
                      ~(\/ QualityOrOne(j) > QualityOrOne(w)
                        \/ (QualityOrOne(j) = QualityOrOne(w) /\ j < w))

\* getLanguage ran without a language cookie on a header that is a
\* non-empty string
DetectedFromHeader ==
    /\ op = "getLanguage"
    /\ ~HasCookie
    /\ acceptLanguage.type = "string"
    /\ acceptLanguage.str # <<>>

\* C11: with no language cookie and a header that is null or the empty
\* string, getLanguage returns the default language of the configuration
\* in force.
C11_NoHeaderGivesDefault ==
    (/\ op = "getLanguage"
     /\ ~HasCookie
     /\ acceptLanguage \in {Null, Str(<<>>)})
        => (~threw /\ returned = config.defaultLanguage)

\* getLanguage ran on an empty header after configure() had changed the
\* default language, and returned the new default
C11_Witness ==
    /\ op = "getLanguage"
    /\ ~HasCookie
    /\ acceptLanguage = Str(<<>>)
    /\ config.defaultLanguage # DefaultConfig.defaultLanguage
    /\ returned = config.defaultLanguage

\* the part of text before the first occurrence of mark, all of it when
\* there is none
Before(text, mark) ==
    LET i == IndexOf(text, mark)
    IN  IF i = 0 THEN text ELSE SubSeq(text, 1, i - 1)

\* the language tag of a header entry: no spaces around it, no quality
TagOf(entry) == Before(Trim(entry), <<";", "q", "=">>)

\* the primary subtag of a language tag, in lower case
PrimarySubtag(tag) == ToLowerCase(Before(tag, <<"-">>))

\* the language tags of the header, and those whose primary subtag is a
\* supported language
HeaderTags ==
    LET entries == Split(acceptLanguage.str, <<",">>)
    IN  {TagOf(entries[i]) : i \in 1..Len(entries)}

IsSupported(code) ==
    \E n \in 1..Len(config.supportedLanguages) : config.supportedLanguages[n] = code

MatchingTags == {tag \in HeaderTags : IsSupported(PrimarySubtag(tag))}

\* C12: with no language cookie and a header none of whose tags has a
\* supported primary subtag, getLanguage returns the default language of
\* the configuration in force.
C12_NoMatchGivesDefault ==
    (DetectedFromHeader /\ MatchingTags = {})
        => (~threw /\ returned = config.defaultLanguage)

\* getLanguage ran on a header that names languages, none of them supported
\* and none of them the default, and returned the default
C12_Witness ==
    /\ DetectedFromHeader
    /\ MatchingTags = {}
    /\ \A tag \in HeaderTags : tag # <<>> /\ PrimarySubtag(tag) # config.defaultLanguage
    /\ config.defaultLanguage # DefaultConfig.defaultLanguage
    /\ returned = config.defaultLanguage

\* C13: a header tag matches by its primary subtag alone, the part before
\* the first "-" in lower case: when some tag of the header has a supported
\* primary subtag, getLanguage returns the primary subtag of such a tag,
\* whether the tag has a region or not and whatever its case.
C13_MatchedByPrimarySubtag ==
    (DetectedFromHeader /\ MatchingTags # {})
        => \E tag \in MatchingTags : returned = PrimarySubtag(tag)

\* getLanguage ran on a header whose only matching tags have a region or
\* upper case, and returned the primary subtag, which is not the default
C13_Witness ==
    /\ DetectedFromHeader
    /\ MatchingTags # {}
    /\ \A tag \in MatchingTags : tag # PrimarySubtag(tag)
    /\ \E tag \in MatchingTags : \E i \in 1..Len(tag) : tag[i] = "-"
    /\ returned # config.defaultLanguage
    /\ \E tag \in MatchingTags : returned = PrimarySubtag(tag)

\* the cookie store without the language cookie
WithoutLanguageCookie ==
    [n \in DOMAIN cookies \ {config.cookieName} |-> cookies[n]]

\* C29: a language cookie whose value is the empty string counts as
\* absent: getLanguage returns what it returns for the same header and
\* configuration on the store without that cookie.
C29_EmptyCookieIsAbsent ==
    (op = "getLanguage" /\ HasCookie /\ CookieValue = <<>>)
        => /\ ~threw
           /\ returned \in GetLanguage(WithoutLanguageCookie, acceptLanguage, config)

\* getLanguage ran with an empty language cookie and a header that offers
\* a supported language other than the default, and returned that language
C29_Witness ==
    /\ op = "getLanguage"
    /\ HasCookie
    /\ CookieValue = <<>>
    /\ acceptLanguage.type = "string"
    /\ MatchingTags # {}
    /\ returned # <<>>
    /\ returned # config.defaultLanguage

(***************************************************************************)
(* Properties of the configuration store (SpecStore).                      *)
(***************************************************************************)
TopLevelFields == {"cookieName", "defaultLanguage", "supportedLanguages"}
CookieAttributes == {"path", "maxAge", "sameSite", "httpOnly", "secure"}

\* the property `name` of an object: its value, or nothing when the object
\* has no such property
Field(object, name) == IF name \in DOMAIN object THEN {object[name]} ELSE {}

\* the cookie attributes a configure() argument names
GivenAttributes(o) == IF "cookieOptions" \in DOMAIN o THEN o.cookieOptions ELSE <<>>

C15_ConfigureOverwritesWholesale ==
    [][(/\ op = "configure"
        /\ lastOptions = [defaultLanguage |-> De]
        /\ op' = "configure"
        /\ lastOptions' = [supportedLanguages |-> <<En, De>>])
          => Field(config', "defaultLanguage") # {De}]_allVars

\* C16: configure({}) leaves the cookie name, the default language, the
\* supported languages and every cookie attribute as they were, whatever
\* the configuration was.
C16_EmptyConfigureChangesNothing ==
    [][(op' = "configure" /\ DOMAIN lastOptions' = {}) =>
        /\ \A f \in TopLevelFields : Field(config', f) = Field(config, f)
        /\ "cookieOptions" \in DOMAIN config'
        /\ \A a \in CookieAttributes :
              Field(config'.cookieOptions, a) = Field(config.cookieOptions, a)]_allVars

\* configure({}) ran on a configuration in which every field differs from
\* its initial value or is new
C16_Witness ==
    /\ op = "configure"
    /\ DOMAIN lastOptions = {}
    /\ config.cookieName # DefaultConfig.cookieName
    /\ config.defaultLanguage # DefaultConfig.defaultLanguage
    /\ \A a \in CookieAttributes :
          Field(config.cookieOptions, a) # Field(DefaultConfig.cookieOptions, a)

\* C17: setLanguage(cookies, L) writes one cookie, under the configured
\* cookie name, with the value L and the configured cookie attributes, and
\* leaves every other cookie of the store alone; under the initial
\* configuration that is the cookie "language" with path "/", maxAge
\* 31536000, sameSite "lax", httpOnly false and no secure attribute.
C17_SetLanguageWritesConfiguredCookie ==
    [][op' = "setLanguage" =>
        /\ DOMAIN cookies' = DOMAIN cookies \cup {config.cookieName}
        /\ \A n \in DOMAIN cookies \ {config.cookieName} : cookies'[n] = cookies[n]
        /\ cookies'[config.cookieName] =
              [value |-> lastSet'.language, options |-> config.cookieOptions]
        /\ config = DefaultConfig =>
              /\ config.cookieName = <<"l", "a", "n", "g", "u", "a", "g", "e">>
              /\ DOMAIN cookies'[config.cookieName].options =
                    {"path", "maxAge", "sameSite", "httpOnly"}
              /\ cookies'[config.cookieName].options.path = <<"/">>
              /\ cookies'[config.cookieName].options.maxAge = 31536000
              /\ cookies'[config.cookieName].options.sameSite = <<"l", "a", "x">>
              /\ cookies'[config.cookieName].options.httpOnly = FALSE]_allVars

\* setLanguage("de") ran under a configured cookie name and configured
\* attributes, on a store that held a cookie of another name
C17_Witness ==
    /\ op = "setLanguage"
    /\ lastSet.language = De
    /\ config.cookieName = Lang
    /\ config.cookieOptions # DefaultConfig.cookieOptions
    /\ DOMAIN cookies = {Lang, Language}
    /\ cookies[Lang] = [value |-> De, options |-> config.cookieOptions]

\* C23: in every configuration that configure calls lead to, the default
\* language is a non-empty string.
C23_DefaultLanguageNonEmpty ==
    /\ "defaultLanguage" \in DOMAIN config
    /\ config.defaultLanguage # <<>>

(***************************************************************************)
(* Properties of a session (SpecSession).                                  *)
(***************************************************************************)
\* setLanguage() has been called, and the configuration is the one its
\* latest call read
SetUnderThisConfig == lastSet.called /\ lastSet.config = config

\* the result is what the header alone gives
HeaderDetected == returned \in GetBrowserLanguage(acceptLanguage, config)

\* C18: after setLanguage calls on a cookie store, with the configuration
\* unchanged, getLanguage on that store returns the language of the latest
\* setLanguage call whatever the header is; before the first setLanguage
\* call it returns the language detected from the header.
C18_LatestSetLanguageReturned ==
    op = "getLanguage" =>
        /\ SetUnderThisConfig => returned = lastSet.language
        /\ ~lastSet.called => HeaderDetected

\* C18 as amended: the language of the latest setLanguage call is returned
\* when it is not the empty string; before the first setLanguage call the
\* language detected from the header is returned when the store holds no
\* language cookie or an empty one.
C18_LatestNonEmptySetLanguageReturned ==
    op = "getLanguage" =>
        /\ (SetUnderThisConfig /\ lastSet.language # <<>>) => returned = lastSet.language
        /\ (~lastSet.called /\ ~(HasCookie /\ CookieValue # <<>>)) => HeaderDetected

\* getLanguage ran after setLanguage("de") under a configured cookie name,
\* on a store that arrived with another language cookie and with a header
\* that alone gives another language, and returned "de"
C18_Witness ==
    /\ op = "getLanguage"
    /\ SetUnderThisConfig
    /\ lastSet.language = De
    /\ config.cookieName = Lang
    /\ Lang \in DOMAIN cookies
    /\ De \notin GetBrowserLanguage(acceptLanguage, config)
    /\ returned = De

(***************************************************************************)
(* Properties of an instance (SpecInstance).                               *)
(***************************************************************************)
\* the translation of the key "a" in a language of Greetings
Greeting(language) == Greetings[language].props[<<"a">>].str

\* C19: an instance constructed without a locale has the default language
\* that was configured when it was constructed, "en" under the initial
\* configuration; it reports that locale and translates with it after
\* every later configure call.
C19_LocaleFixedAtConstruction ==
    built.localeArg = Undefined =>
        /\ locale = built.config.defaultLanguage
        /\ built.config = DefaultConfig => locale = <<"e", "n">>
        /\ op = "getLocale" => returned = built.config.defaultLanguage
        /\ op = "t" => returned = Greeting(built.config.defaultLanguage)

\* an instance constructed without a locale under the initial
\* configuration translated with "en" after configure() had made "fr" the
\* default language
C19_Witness ==
    /\ op = "t"
    /\ built.localeArg = Undefined
    /\ built.config = DefaultConfig
    /\ config.defaultLanguage = Fr
    /\ returned = Greeting(En)

\* C20: for every string passed to the constructor as the locale code,
\* getLocale() returns that string.
C20_GetLocaleReturnsArgument ==
    (op = "getLocale" /\ built.localeArg.type = "string")
        => returned = built.localeArg.str

\* C20 as amended: for every non-empty string passed to the constructor
\* as the locale code, getLocale() returns that string.
C20_GetLocaleReturnsNonEmptyArgument ==
    (op = "getLocale" /\ built.localeArg.type = "string" /\ built.localeArg.str # <<>>)
        => returned = built.localeArg.str

\* getLocale() ran on an instance constructed with a locale that is
\* neither supported nor the default, and returned it
C20_Witness ==
    /\ op = "getLocale"
    /\ built.localeArg = Str(Fr)
    /\ config.defaultLanguage # Fr
    /\ ~IsSupported(Fr)
    /\ returned = Fr

(***************************************************************************)
(* Properties of selection (SpecSelect).                                   *)
(***************************************************************************)
\* C24: after any configure calls, getLanguage without a cookie returns,
\* for every header, a member of the supported set in force or the default
\* language in force; a supported set named in a configure call replaces
\* the previous one.
C24_ResultSupportedOrDefault ==
    /\ (op = "getLanguage" /\ ~HasCookie)
          => (~threw /\ (IsSupported(returned) \/ returned = config.defaultLanguage))
    /\ (op = "configure" /\ "supportedLanguages" \in DOMAIN lastOptions)
          => config.supportedLanguages = lastOptions.supportedLanguages

\* getLanguage ran on the header "de" after configure() had named a
\* supported set without "de", and returned the default language
C24_Witness ==
    /\ op = "getLanguage"
    /\ ~HasCookie
    /\ acceptLanguage = Str(De)
    /\ config.supportedLanguages # <<>>
    /\ ~IsSupported(De)
    /\ returned = config.defaultLanguage

\* C30: every configured supported language can be selected from the
\* header: for every code s of the supported set in force, getLanguage
\* without a cookie on the header s returns s.
C30_SupportedIsSelectable ==
    (/\ op = "getLanguage"
     /\ ~HasCookie
     /\ acceptLanguage.type = "string"
     /\ IsSupported(acceptLanguage.str))
        => returned = acceptLanguage.str

\* a non-empty code of lower-case letters
IsPlainCode(code) ==
    /\ code # <<>>
    /\ \A i \in 1..Len(code) : \E n \in 1..Len(LowerCase) : LowerCase[n] = code[i]

\* C30 as amended: for every code s of the supported set in force that is
\* a non-empty string of lower-case letters, getLanguage without a cookie
\* on the header s returns s.
C30_PlainSupportedIsSelectable ==
    (/\ op = "getLanguage"
     /\ ~HasCookie
     /\ acceptLanguage.type = "string"
     /\ IsSupported(acceptLanguage.str)
     /\ IsPlainCode(acceptLanguage.str))
        => returned = acceptLanguage.str

\* getLanguage ran on the header "fr" with "fr" configured as the second
\* supported language and not the default, and returned "fr"
C30_Witness ==
    /\ op = "getLanguage"
    /\ ~HasCookie
    /\ acceptLanguage = Str(Fr)
    /\ Len(config.supportedLanguages) = 2
    /\ config.supportedLanguages[2] = Fr
    /\ config.supportedLanguages[1] # Fr
    /\ config.defaultLanguage # Fr
    /\ returned = Fr

(***************************************************************************)
(* Properties of a request (SpecRequest).                                  *)
(***************************************************************************)
\* C25: t(), has(), getLocale() and getLanguage() have no side effects:
\* a call of any of them leaves the translations dictionary, the
\* configuration and the cookie store as they were; getLanguage does not
\* write the language it found into the cookie.
C25_ReadsHaveNoSideEffects ==
    [][op' \in {"t", "has", "getLocale", "getLanguage"} =>
        /\ translations' = translations
        /\ config' = config
        /\ cookies' = cookies]_allVars

\* getLanguage() found a language in the header of a request without a
\* language cookie, and the store still has no language cookie
C25_Witness ==
    /\ op = "getLanguage"
    /\ ~HasCookie
    /\ acceptLanguage.type = "string"
    /\ returned # config.defaultLanguage
    /\ IsSupported(returned)

====
